---- MODULE Spec2Model ----
(***************************************************************************)
(* llama-terminal-completion: the prompt builder, the streamed-output      *)
(* scanner and the confirmation gates.                                     *)
(*                                                                         *)
(*   src/functions/bot.py                  run_llama_builder, run_command, *)
(*                                         generate_llama_prompt           *)
(*   src/old-project/functions/helpers.py  find_between                    *)
(*   src/functions.py, src/ask_llama.py    process_llama_output,           *)
(*                                         prompt_user, main               *)
(*                                                                         *)
(* A Python str is a sequence of one-character strings.  Indices are       *)
(* 0-based as in Python; -1 stands for the ValueError of str.index.        *)
(***************************************************************************)
EXTENDS Integers, Sequences, FiniteSets

VARIABLES
    env,              \* the process environment: key -> value, None if unset
    option,           \* run_llama_builder's option ("C", "Q", ...)
    prompt,           \* run_llama_builder's prompt
    token,            \* run_llama_builder's token argument (None by default)
    pc,               \* where the program is
    builder,          \* the command line handed to subprocess.Popen
    text_delimiter,   \* bot.py:59
    text_end,         \* bot.py:60
    i,                \* bot.py:73, lines read
    delimiter_count,  \* bot.py:70
    result,           \* bot.py:71
    line,             \* llamaOutputLine, bot.py:77
    occ,              \* delimiter occurrences in llamaLog (bot.py:78)
    eof,              \* the child's stdout has reached end of file
    terminated,       \* number of llamaOutput.terminate() calls
    out,              \* what was printed, in order
    executed,         \* the commands handed to os.system, in order
    output_file,      \* ask_llama.py: the lines of llama_output.txt
    response,         \* ask_llama.py: process_llama_output's return value
    user_input        \* the line input() returned to a confirmation gate

vars == <<env, option, prompt, token, pc, builder, text_delimiter, text_end, i,
          delimiter_count, result, line, occ, eof, terminated, out, executed,
          output_file, response, user_input>>

\* ------------------------------------------------------------------ bounds

\* Longest content of one line of child output (without its newline).
MaxLineLen == 3
\* Lines the model lets the scan loop read before it stops looking.
MaxReads == 7
\* Longest text and longest marker given to find_between on its own.
MaxTextLen == 4
MaxMarkerLen == 2
\* Delimiter occurrences are counted up to this many.
MaxOcc == 3

\* bot.py:88, the lines read before the scan gives up.
MaxAttempts == 5

\* ----------------------------------------------------------------- strings

\* Python's None; no str is equal to it (every element of a str is one character).
None == <<"None">>

\* str(None) and f"{None}".
NoneText == <<"N", "o", "n", "e">>

\* The backquote character, which a TLA+ string cannot hold, is written as a quote.
BT == "'"

Whitespace == {" ", "\n", "\t", "\r"}

SeqsUpTo(S, n) == UNION {[1..k -> S] : k \in 0..n}

\* s[a:b] for 0 <= a <= b <= len(s).
Slice(s, a, b) == SubSeq(s, a + 1, b)

\* s.startswith(t, p)
MatchAt(s, t, p) ==
    /\ p + Len(t) <= Len(s)
    /\ \A k \in 1..Len(t) : s[p + k] = t[k]

\* s.index(t, start), the lowest index >= start at which t occurs; -1 for ValueError.
RECURSIVE Index(_, _, _)
Index(s, t, start) ==
    IF start + Len(t) > Len(s) THEN -1
    ELSE IF MatchAt(s, t, start) THEN start
    ELSE Index(s, t, start + 1)

\* t in s
Contains(s, t) == Index(s, t, 0) # -1

\* s.replace(old, new): the non-overlapping occurrences, left to right; an empty
\* old matches before every character and at the end.
RECURSIVE ReplaceFrom(_, _, _, _)
ReplaceFrom(s, old, new, p) ==
    IF Len(old) = 0
    THEN IF p >= Len(s) THEN new
         ELSE new \o <<s[p + 1]>> \o ReplaceFrom(s, old, new, p + 1)
    ELSE IF p >= Len(s) THEN <<>>
         ELSE IF MatchAt(s, old, p)
              THEN new \o ReplaceFrom(s, old, new, p + Len(old))
              ELSE <<s[p + 1]>> \o ReplaceFrom(s, old, new, p + 1)

Replace(s, old, new) == ReplaceFrom(s, old, new, 0)

RECURSIVE LStrip(_)
LStrip(s) ==
    IF s # <<>> /\ Head(s) \in Whitespace THEN LStrip(Tail(s)) ELSE s

RECURSIVE RStrip(_)
RStrip(s) ==
    IF s # <<>> /\ s[Len(s)] \in Whitespace
    THEN RStrip(SubSeq(s, 1, Len(s) - 1)) ELSE s

\* s.strip()
Strip(s) == RStrip(LStrip(s))

\* str(v)
Str(v) == IF v = None THEN NoneText ELSE v

\* Number of positions of s at which t occurs.
Occurrences(s, t) == Cardinality({p \in 0..Len(s) : MatchAt(s, t, p)})

\* The occurrences counted so far and n more, counted no further than MaxOcc.
CountUpTo(sofar, n) == IF sofar + n > MaxOcc THEN MaxOcc ELSE sofar + n

\* find_between with the start marker left in the slice.
find_between_keeps_marker(s, first, last) ==
    LET i1 == Index(s, first, 0) IN
    IF i1 = -1 THEN <<>>
    ELSE LET end == Index(s, last, i1 + Len(first))
         IN IF end = -1 THEN <<>> ELSE Slice(s, i1, end)

\* find_between with the end marker searched from the start of the text.
find_between_from_start(s, first, last) ==
    LET i1 == Index(s, first, 0) IN
    IF i1 = -1 THEN <<>>
    ELSE LET start == i1 + Len(first)
             end == Index(s, last, 0)
         IN IF end = -1 \/ end < start THEN <<>> ELSE Slice(s, start, end)

\* helpers.py:1-7
find_between(s, first, last) ==
    LET i1 == Index(s, first, 0) IN
    IF i1 = -1 THEN <<>>
    ELSE LET start == i1 + Len(first)
             end == Index(s, last, start)
         IN IF end = -1 THEN <<>> ELSE Slice(s, start, end)

\* ------------------------------------------------------------- environment

Options == {"C", "Q"}

ModeKeys == {"_LLAMA_MODEL", "_TEXT_START", "_TEXT_END", "_TEXT_DELIMITER",
             "_TOKENS", "_TOP_P", "_TOP_K", "_CTX", "_R_PENALTY"}

GlobalKeys == {"LLAMA_CPP_DIR", "GPU", "GPU_LAYERS"}

EnvKeys == GlobalKeys \cup {o \o k : o \in Options, k \in ModeKeys}

KeysOf(suffix) == {o \o suffix : o \in Options}

\* The values of <mode>_TEXT_END and <mode>_TEXT_DELIMITER the model ranges over.
TextEnds == {<<>>, <<"$">>}
Delimiters == {<<BT>>, <<"a", BT>>}
GpuFlags == {<<"N", "O">>, <<"Y", "E", "S">>}

\* An environment with every key set.
FullEnv(te, td, gpu) ==
    [k \in EnvKeys |->
        IF k = "LLAMA_CPP_DIR" THEN <<"d", "/">>
        ELSE IF k = "GPU" THEN gpu
        ELSE IF k = "GPU_LAYERS" THEN <<"8">>
        ELSE IF k \in KeysOf("_LLAMA_MODEL") THEN <<"m">>
        ELSE IF k \in KeysOf("_TEXT_START") THEN <<"\\", "n", ">">>
        ELSE IF k \in KeysOf("_TEXT_END") THEN te
        ELSE IF k \in KeysOf("_TEXT_DELIMITER") THEN td
        ELSE IF k \in KeysOf("_TOKENS") THEN <<"2", "5">>
        ELSE IF k \in KeysOf("_TOP_P") THEN <<".", "5">>
        ELSE IF k \in KeysOf("_TOP_K") THEN <<"3", "0">>
        ELSE IF k \in KeysOf("_CTX") THEN <<"9">>
        ELSE <<"1">>]

FullEnvs == {FullEnv(te, td, gpu) : te \in TextEnds, td \in Delimiters, gpu \in GpuFlags}

\* e with the keys of K unset.
Without(e, K) == [k \in EnvKeys |-> IF k \in K THEN None ELSE e[k]]

\* Environments with at most one key unset.
PartialEnvs == FullEnvs \cup {Without(e, {k}) : e \in FullEnvs, k \in EnvKeys}

\* os.getenv
getenv(k) == env[k]

\* bot.py:10-11, read once at import
llama_cpp_dir == getenv("LLAMA_CPP_DIR")

Prompts == {<<"l", "s">>}
TokenArgs == {None, <<"7">>}

\* -------------------------------------------------- generate_llama_prompt

NoCommand == [m |-> <<>>, p |-> <<>>, n |-> <<>>, top_p |-> <<>>, top_k |-> <<>>,
              ctx |-> <<>>, repeat_penalty |-> <<>>, gpu_layers |-> <<>>]

Raise(e) == [raise |-> e, cmd |-> NoCommand]

\* The exception generate_llama_prompt raises on an unset key, "" if none:
\* os.path.join(None) is a TypeError, None.replace an AttributeError; the
\* f-strings format None as "None" and raise nothing.
PromptError(opt) ==
    IF llama_cpp_dir = None \/ getenv(opt \o "_LLAMA_MODEL") = None THEN "TypeError"
    ELSE IF getenv(opt \o "_TEXT_START") = None THEN "AttributeError"
    ELSE IF getenv(opt \o "_TEXT_END") = None THEN "AttributeError"
    ELSE ""

\* The token count that follows -n on the command line (bot.py:45).
TokenFlag(opt, Tokens) == Str(getenv(opt \o "_TOKENS"))

\* bot.py:30-53.  The command line, flag by flag.
generate_llama_prompt(pr, opt, Tokens) ==
    IF PromptError(opt) # "" THEN Raise(PromptError(opt))
    ELSE [raise |-> "",
          cmd |-> [m |-> llama_cpp_dir \o getenv(opt \o "_LLAMA_MODEL"),
                   p |-> Replace(getenv(opt \o "_TEXT_START"), <<"\\", "n">>, <<"\n">>)
                         \o pr
                         \o Replace(getenv(opt \o "_TEXT_END"), <<"\\", "n">>, <<"\n">>),
                   n |-> TokenFlag(opt, Tokens),
                   top_p |-> Str(getenv(opt \o "_TOP_P")),
                   top_k |-> Str(getenv(opt \o "_TOP_K")),
                   ctx |-> Str(getenv(opt \o "_CTX")),
                   repeat_penalty |-> Str(getenv(opt \o "_R_PENALTY")),
                   gpu_layers |-> IF getenv("GPU") = <<"Y", "E", "S">>
                                  THEN Str(getenv("GPU_LAYERS")) ELSE <<>>]]

\* ------------------------------------------------------------------- lines

Alphabet == {BT, "$", "a"}

\* A line as readline() returns it: its content and the newline that ends it, or
\* the empty str at end of file.
Lines == {c \o <<"\n">> : c \in SeqsUpTo(Alphabet, MaxLineLen)} \cup {<<>>}

EndsFile(l) == l = <<>> \/ l[Len(l)] # "\n"

\* input()
UserInputs == {"", "y", "Y", "n", "yes"}

\* Before any input() has returned.
NoInput == "<no input yet>"

Message(kind, text) == [msg |-> kind, text |-> text]

\* ------------------------------------------------------------------- state

Idle ==
    /\ builder = Raise("")
    /\ i = 0 /\ delimiter_count = 0 /\ result = None
    /\ occ = 0 /\ eof = FALSE /\ terminated = 0
    /\ out = <<>> /\ executed = <<>> /\ output_file = <<>> /\ response = None
    /\ user_input = NoInput

InitBuilder(envs, tokens) ==
    /\ env \in envs
    /\ option \in Options
    /\ prompt \in Prompts
    /\ token \in tokens
    /\ pc = "run_llama_builder"
    /\ text_delimiter = None /\ text_end = None /\ line = <<>>
    /\ Idle

\* bot.py:57-73: the lookups, the command line, Popen, the loop's variables.
RunLlamaBuilder ==
    /\ pc = "run_llama_builder"
    /\ LET td == Str(getenv(option \o "_TEXT_DELIMITER"))
           te == Str(getenv(option \o "_TEXT_END"))
           tk == IF token # None THEN token ELSE getenv(option \o "_TOKENS")
           b == generate_llama_prompt(prompt, option, tk)
       IN /\ text_delimiter' = td
          /\ text_end' = te
          /\ builder' = b
          /\ pc' = IF b.raise # "" THEN "raised" ELSE "scan"
    /\ UNCHANGED <<env, option, prompt, token, i, delimiter_count, result, line,
                   occ, eof, terminated, out, executed, output_file, response,
                   user_input>>

\* bot.py:82 with the count off by one.
ExtractsAnswerAtFirst(count, te) == count > 0 /\ te = <<>>

\* bot.py:82
ExtractsAnswer(count, te) == count > 1 /\ te = <<>>

\* bot.py:85
ExtractsCommand(count, te) == count = 1 /\ te # <<>>

\* bot.py:88 with the bound off by one.
GivesUpLate(n) == n > MaxAttempts + 1

\* bot.py:88
GivesUp(n) == n > MaxAttempts

\* bot.py:83
AnswerOf(l, td) == Strip(Replace(l, td, <<>>))

\* bot.py:15 and functions.py:179: the truth value of a str or None.
Truthy(command) == command # None /\ command # <<>>

\* bot.py:20 with the empty line accepted, as functions.py:194 does.
AcceptsEmpty(typed) == typed = "Y" \/ typed = "y" \/ typed = ""

\* bot.py:20
Accepts(typed) == typed = "Y" \/ typed = "y"

\* functions.py:194
PromptUserAccepts(typed) ==
    typed = "Y" \/ typed = "y" \/ typed = ""

\* bot.py:93-101: what the loop does with result at the end of a pass.
Report ==
    IF result' # None /\ option = "C"
    THEN IF Truthy(result')
         THEN /\ out' = Append(out, Message("offer", result'))
              /\ pc' = "input"
         ELSE /\ out' = Append(out, Message("error", <<>>))
              /\ pc' = "scan"
    ELSE IF result' # None
    THEN /\ out' = Append(out, Message("answer", result'))
         /\ pc' = "returned"
    ELSE /\ out' = out
         /\ pc' = "scan"

\* bot.py:80-87: the line l holds the delimiter.
DelimiterLine(l) ==
    /\ delimiter_count' = delimiter_count + 1
    /\ IF ExtractsAnswer(delimiter_count', text_end)
       THEN /\ result' = AnswerOf(l, text_delimiter)
            /\ terminated' = terminated + 1
       ELSE IF ExtractsCommand(delimiter_count', text_end)
       THEN /\ result' = find_between(l, text_end, text_delimiter)
            /\ terminated' = terminated + 1
       ELSE /\ result' = result
            /\ terminated' = terminated
    /\ Report

\* bot.py:88-91 and 93-101: the line holds no delimiter.
OtherLine ==
    /\ delimiter_count' = delimiter_count
    /\ result' = result
    /\ IF GivesUp(i')
       THEN /\ out' = Append(out, Message("try_again", <<>>))
            /\ terminated' = terminated + 1
            /\ pc' = "returned"
       ELSE /\ terminated' = terminated
            /\ Report

\* bot.py:75-101: one pass of the loop on the line l that readline() returns,
\* up to the next readline(), the input() of run_command, or the way out.
Iteration(l) ==
    /\ i' = i + 1
    /\ line' = l
    /\ occ' = CountUpTo(occ, Occurrences(l, text_delimiter))
    /\ eof' = (eof \/ EndsFile(l))
    /\ IF Contains(l, text_delimiter) THEN DelimiterLine(l) ELSE OtherLine

ScanStep ==
    /\ pc = "scan"
    /\ i < MaxReads
    /\ \E l \in (IF eof THEN {<<>>} ELSE Lines) : Iteration(l)
    /\ UNCHANGED <<env, option, prompt, token, builder, text_delimiter, text_end,
                   executed, output_file, response, user_input>>

\* bot.py:18-26: run_command from the line input() returns.
RunCommandInput ==
    /\ pc = "input"
    /\ \E typed \in UserInputs :
          /\ user_input' = typed
          /\ IF Accepts(typed)
             THEN /\ out' = Append(out, Message("running", result))
                  /\ executed' = Append(executed, result)
             ELSE /\ out' = Append(out, Message("wont_run", <<>>))
                  /\ executed' = executed
    /\ pc' = "exited"
    /\ UNCHANGED <<env, option, prompt, token, builder, text_delimiter, text_end, i,
                   delimiter_count, result, line, occ, eof, terminated,
                   output_file, response>>

\* ------------------------------------------------------------ ask_llama.py

\* s.split(sep) for a non-empty sep.
RECURSIVE Split(_, _)
Split(s, sep) ==
    LET p == Index(s, sep, 0) IN
    IF p = -1 THEN <<s>>
    ELSE <<Slice(s, 0, p)>> \o Split(Slice(s, p + Len(sep), Len(s)), sep)

\* functions.py:149-173 on the lines f of the output file.
RECURSIVE process_llama_output(_)
process_llama_output(f) ==
    IF f = <<>> THEN [raise |-> "", value |-> None]
    ELSE IF Contains(Head(f), <<"$">>)
    THEN LET pieces == Split(Head(f), <<BT>>) IN
         IF Len(pieces) < 2 THEN [raise |-> "IndexError", value |-> None]
         ELSE LET last == Split(pieces[2], <<BT>>)
              IN [raise |-> "", value |-> last[Len(last)]]
    ELSE process_llama_output(Tail(f))

\* What run_llama_request leaves in llama_output.txt.
OutputFiles == {<<>>} \cup {<<l>> : l \in Lines \ {<<>>}}

InitAskLlama ==
    /\ env \in {FullEnv(<<>>, <<BT>>, <<"N", "O">>)}
    /\ option = "C"
    /\ prompt \in Prompts
    /\ token = None
    /\ pc = "ask_llama"
    /\ text_delimiter = None /\ text_end = None /\ line = <<>>
    /\ Idle

\* ask_llama.py:59-60
RunLlamaRequest ==
    /\ pc = "ask_llama"
    /\ output_file' \in OutputFiles
    /\ pc' = "process_llama_output"
    /\ UNCHANGED <<env, option, prompt, token, builder, text_delimiter, text_end, i,
                   delimiter_count, result, line, occ, eof, terminated, out,
                   executed, response, user_input>>

\* ask_llama.py:61
ProcessLlamaOutput ==
    /\ pc = "process_llama_output"
    /\ LET r == process_llama_output(output_file)
       IN /\ response' = r.value
          /\ pc' = IF r.raise # "" THEN "raised" ELSE "prompt_user"
    /\ UNCHANGED <<env, option, prompt, token, builder, text_delimiter, text_end, i,
                   delimiter_count, result, line, occ, eof, terminated, out,
                   executed, output_file, user_input>>

\* functions.py:177-191: prompt_user up to input().
PromptUser ==
    /\ pc = "prompt_user"
    /\ IF Truthy(response)
       THEN /\ out' = Append(out, Message("offer", response))
            /\ pc' = "prompt_user_input"
       ELSE /\ out' = out
            /\ pc' = "returned"
    /\ UNCHANGED <<env, option, prompt, token, builder, text_delimiter, text_end, i,
                   delimiter_count, result, line, occ, eof, terminated,
                   executed, output_file, response, user_input>>

\* functions.py:191-200: prompt_user from the line input() returns.
PromptUserInput ==
    /\ pc = "prompt_user_input"
    /\ \E typed \in UserInputs :
          /\ user_input' = typed
          /\ IF PromptUserAccepts(typed)
             THEN /\ out' = Append(out, Message("running", <<>>))
                  /\ executed' = Append(executed, response)
             ELSE /\ out' = Append(out, Message("wont_run", <<>>))
                  /\ executed' = executed
    /\ pc' = "exited"
    /\ UNCHANGED <<env, option, prompt, token, builder, text_delimiter, text_end, i,
                   delimiter_count, result, line, occ, eof, terminated,
                   output_file, response>>

\* ------------------------------------------------------------------- specs

\* The environments of the scan: every key set, the GPU flag off.
ScanEnvs == {FullEnv(te, td, <<"N", "O">>) : te \in TextEnds, td \in Delimiters}

Init == InitBuilder(ScanEnvs, {None}) \/ InitAskLlama

Next ==
    \/ RunLlamaBuilder
    \/ ScanStep
    \/ RunCommandInput
    \/ RunLlamaRequest
    \/ ProcessLlamaOutput
    \/ PromptUser
    \/ PromptUserInput

Spec == Init /\ [][Next]_vars

\* find_between on its own: every text and pair of markers within the bounds.
MarkerAlphabet == {"[", "]", "b"}

InitFindBetween ==
    /\ env \in {FullEnv(<<>>, <<BT>>, <<"N", "O">>)}
    /\ option = "C"
    /\ prompt \in Prompts
    /\ token = None
    /\ pc = "find_between"
    /\ line \in SeqsUpTo(MarkerAlphabet, MaxTextLen)
    /\ text_end \in SeqsUpTo(MarkerAlphabet, MaxMarkerLen)
    /\ text_delimiter \in SeqsUpTo(MarkerAlphabet, MaxMarkerLen)
    /\ Idle

\* helpers.py:1-7 called on (line, text_end, text_delimiter), as bot.py:86 does.
FindBetween ==
    /\ pc = "find_between"
    /\ result' = find_between(line, text_end, text_delimiter)
    /\ pc' = "find_between_done"
    /\ UNCHANGED <<env, option, prompt, token, builder, text_delimiter, text_end, i,
                   delimiter_count, line, occ, eof, terminated, out, executed,
                   output_file, response, user_input>>

SpecFindBetween == InitFindBetween /\ [][FindBetween]_vars

InitResolve == InitBuilder(PartialEnvs, TokenArgs)

SpecResolve == InitResolve /\ [][RunLlamaBuilder]_vars

\* ------------------------------------------------------------------ claims

\* The positions of s at which t occurs.
OccursAt(s, t) == {p \in 0..Len(s) : MatchAt(s, t, p)}

Least(S) == CHOOSE x \in S : \A y \in S : x <= y

\* The text strictly between the first occurrence of f in s and the first
\* occurrence of l at or after its end; empty when there is no such pair.
TextBetween(s, f, l) ==
    IF OccursAt(s, f) = {} THEN <<>>
    ELSE LET start == Least(OccursAt(s, f)) + Len(f)
             Q == {q \in OccursAt(s, l) : q >= start}
         IN IF Q = {} THEN <<>> ELSE SubSeq(s, start + 1, Least(Q))

\* The scan loop of run_llama_builder has started.
InScan == pc \in {"scan", "input", "returned", "exited"} /\ text_end # None

\* C1 (as amended): with an empty end-template text the scanner produces no result
\* at the first line that holds the delimiter and extracts at the second such line
\* it reads: the result is that line with the delimiter removed and the surrounding
\* whitespace stripped.
C1_ExtractsAtSecondDelimiterLine ==
    (InScan /\ text_end = <<>>) =>
        /\ delimiter_count <= 1 => result = None
        /\ delimiter_count >= 2 => result # None
        /\ (delimiter_count = 2 /\ OccursAt(line, text_delimiter) # {}) =>
               result = Strip(Replace(line, text_delimiter, <<>>))

\* C1 witness: the second delimiter-bearing line is the fourth line read and the
\* answer is taken from it.
C1_Witness ==
    /\ text_end = <<>> /\ text_delimiter = <<BT>>
    /\ i = 4 /\ delimiter_count = 2
    /\ line = <<"a", BT, "\n">> /\ result = <<"a">>
    /\ terminated = 1

\* C1 (as stated): with an empty end-template text, a stream that has ended and
\* held the delimiter exactly twice has given a result when the scan is over.
C1_TwoOccurrencesAlwaysExtract ==
    (InScan /\ text_end = <<>> /\ pc = "returned" /\ eof /\ occ = 2) =>
        result # None

\* C2: with a non-empty end-template text the result extracted at the first line
\* that holds the delimiter is the text of that line strictly between the
\* end-template text and the delimiter that follows it.
C2_CommandIsTextBetweenMarkers ==
    (InScan /\ text_end # <<>> /\ delimiter_count = 1
       /\ OccursAt(line, text_delimiter) # {}) =>
        result = TextBetween(line, text_end, text_delimiter)

\* C2 witness: the only delimiter of the stream, on a line shaped "$a`".
C2_Witness ==
    /\ text_end = <<"$">> /\ text_delimiter = <<BT>>
    /\ delimiter_count = 1 /\ occ = 1
    /\ line = <<"$", "a", BT, "\n">> /\ result = <<"a">>

\* C3: when more than 5 lines have been read and none held the delimiter, the
\* scan has reported "try again", asked the child to terminate and left its loop.
C3_GivesUpAfterFiveLines ==
    (InScan /\ i > 5 /\ delimiter_count = 0) =>
        /\ pc = "returned"
        /\ result = None
        /\ terminated = 1
        /\ out = <<Message("try_again", <<>>)>>

\* C3 witness: six lines without the delimiter, the child still writing.
C3_Witness ==
    /\ i = 6 /\ delimiter_count = 0 /\ ~eof
    /\ text_delimiter = <<BT>> /\ line = <<"a", "\n">>
    /\ pc = "returned" /\ terminated = 1

\* C4 (as stated): an empty string is never printed as an answer, offered for
\* confirmation or executed, and a scan that ends without a result has last
\* reported "try again".
C4_EmptyResultNeverSurfaces ==
    /\ \A k \in 1..Len(out) :
           out[k].msg \in {"answer", "offer"} => out[k].text # <<>>
    /\ \A k \in 1..Len(executed) : executed[k] # <<>>
    /\ (InScan /\ pc = "returned" /\ ~Truthy(result)) =>
           /\ out # <<>>
           /\ out[Len(out)].msg \in {"try_again", "error"}

\* C5 (as stated): termination of the child is requested at most once.
C5_TerminatedAtMostOnce == terminated <= 1

\* C6 (as amended): prompt_user executes the command if and only if the line read
\* is empty, "y" or "Y"; run_command if and only if it is "y" or "Y"; nothing else
\* is executed, and once a gate has read its line the process has exited.
C6_GateExecutesOnItsOwnTokens ==
    /\ user_input # NoInput => pc = "exited"
    /\ (pc = "exited" /\ response # None) =>
           executed = IF user_input \in {"", "y", "Y"} THEN <<response>> ELSE <<>>
    /\ (pc = "exited" /\ response = None) =>
           executed = IF user_input \in {"y", "Y"} THEN <<result>> ELSE <<>>

\* C6 witness: run_command has read an empty line and run nothing.
C6_Witness ==
    /\ pc = "exited" /\ response = None /\ Truthy(result)
    /\ user_input = "" /\ executed = <<>>

\* C6 (as stated): either gate executes the command if and only if the line read
\* is empty, "y" or "Y".
C6_EmptyOrYesExecutes ==
    pc = "exited" => (executed # <<>> <=> user_input \in {"", "y", "Y"})

\* C7 (as stated): the token count after -n is the token override when one is
\* given and the mode's configured count otherwise.
C7_OverrideReachesCommandLine ==
    pc = "scan" =>
        builder.cmd.n = IF token # None THEN token
                        ELSE Str(getenv(option \o "_TOKENS"))

\* C8 (as stated): the child is spawned only when every mode-prefixed key is set.
C8_MissingKeyNeverSpawns ==
    pc = "scan" => \A k \in ModeKeys : getenv(option \o k) # None

\* C9: find_between returns the text strictly between the first occurrence of the
\* start marker and the first occurrence of the end marker after it, and the empty
\* str when either marker is absent.
C9_FindBetween ==
    pc = "find_between_done" =>
        /\ result = TextBetween(line, text_end, text_delimiter)
        /\ (OccursAt(line, text_end) = {} \/ OccursAt(line, text_delimiter) = {}) =>
               result = <<>>

\* C9 witness: an end marker before the start marker is passed over.
C9_Witness ==
    /\ pc = "find_between_done"
    /\ line = <<"]", "[", "b", "]">>
    /\ text_end = <<"[">> /\ text_delimiter = <<"]">>
    /\ result = <<"b">>

\* C10 (as stated): once a result has been extracted or the scan has given up, no
\* further line is read and no further outcome of the scan is reported.
C10_NothingReadAfterOutcome ==
    [][(InScan /\ (result # None \/ terminated > 0)) =>
           /\ i' = i
           /\ out' # out => out'[Len(out')].msg \in {"running", "wont_run"}]_vars

====
